---- MODULE Spec2Model ----
(***************************************************************************)
(* MY-PERFECT-MEAL: the feedback -> feature vector -> retrain -> predict   *)
(* loop of data_ml.py and the two LAUNCHER.py handlers that drive it.      *)
(*                                                                         *)
(* Representation of Python values:                                        *)
(*   - a float bias is kept in tenths (0.5 is 5, (cold+warm)/10 is         *)
(*     cold+warm), so equality of biases is integer equality;              *)
(*   - a str is a record [w, c]: the word in lower case and its case       *)
(*     pattern c ("T" Title, "l" lower, "U" UPPER); str.title() rewrites   *)
(*     the pattern, == compares both fields;                               *)
(*   - a list or tuple is a record [t, v] with t the Python type and v the *)
(*     elements; json.dumps / json.loads map both to and from a JSON array;*)
(*   - None is the null reference 0; model objects are heap ids 1, 2, ...  *)
(***************************************************************************)
EXTENDS Integers, Sequences, FiniteSets, TLC

\* ------------------------------------------------------------------ bounds
MaxSearches == 2
MaxInteractions == 2
MaxTime == 1
\* likes and dislikes clicked while sessions run handlers concurrently
MaxClicks == 1

Sessions == {1, 2}

\* ------------------------------------------------------------- Python values
None == 0

Title(w) == [w |-> w, c |-> "T"]
Lower(w) == [w |-> w, c |-> "l"]
Upper(w) == [w |-> w, c |-> "U"]

\* str.title() on a one-word alphabetic string
title(s) == [w |-> s.w, c |-> "T"]

PyList(v) == [t |-> "list", v |-> v]
PyTuple(v) == [t |-> "tuple", v |-> v]

\* the value None and an int where a list is expected
PyNone == [t |-> "NoneType", v |-> << >>]
PyInt(n) == [t |-> "int", v |-> << n >>]

\* json.dumps: a list and a tuple both serialise to a JSON array, None to
\* null, an int to a number
json_dumps(x) ==
    [js |-> CASE x.t \in {"list", "tuple"} -> "array"
              [] x.t = "NoneType" -> "null"
              [] OTHER -> "number",
     v |-> x.v]

\* json.loads: a JSON array parses to a list, null to None, a number to an int
json_loads(j) ==
    [t |-> CASE j.js = "array" -> "list"
             [] j.js = "null" -> "NoneType"
             [] OTHER -> "int",
     v |-> j.v]

\* d.get(k, default) on a dict, a record whose domain is the keys present
dict_get(d, k, default) == IF k \in DOMAIN d THEN d[k] ELSE default

\* `x in lst` for a Python list
InList(x, lst) == \E i \in 1..Len(lst.v) : lst.v[i] = x

\* [c.title() for c in lst]
title_all(lst) == [t |-> "list", v |-> [i \in 1..Len(lst.v) |-> title(lst.v[i])]]

\* --------------------------------------------------------------- vocabulary
all_cuisines ==
    << Title("italian"), Title("american"), Title("mexican"), Title("japanese"),
       Title("asian"), Title("european"), Title("mediterranean"), Title("thai") >>

all_tastes ==
    << Title("sweet"), Title("salty"), Title("sour"), Title("bitter"),
       Title("umami"), Title("spicy") >>

\* {"happy": 2, "neutral": 1, "sad": 0}.get(e, 1)
emotion_map(e) ==
    CASE e = "happy" -> 2
      [] e = "neutral" -> 1
      [] e = "sad" -> 0
      [] OTHER -> 1

\* [1 if x in chosen else 0 for x in vocabulary]
one_hot(vocabulary, chosen) ==
    [i \in 1..Len(vocabulary) |-> IF InList(vocabulary[i], chosen) THEN 1 ELSE 0]

\* diet_vector with the None flag as the catch-all of every other value
diet_vector_catch_all(diet) ==
    << IF diet = "Vegan" THEN 1 ELSE 0,
       IF diet = "Vegetarian" THEN 1 ELSE 0,
       IF diet \notin {"Vegan", "Vegetarian"} THEN 1 ELSE 0 >>

diet_vector(diet) ==
    << IF diet = "Vegan" THEN 1 ELSE 0,
       IF diet = "Vegetarian" THEN 1 ELSE 0,
       IF diet = "None" THEN 1 ELSE 0 >>

\* ------------------------------------------------------------------- inputs
\* What a caller hands to save_search_query: cuisines, tastes, diet, price_range.
\* The Find Restaurants form offers Title-case options and a slider tuple.
UISearchInputs ==
    { [cuisines |-> PyList(<<Title("italian"), Title("chinese")>>),
       tastes |-> PyList(<<Title("sweet")>>),
       diet |-> "None", price_range |-> PyTuple(<<1, 4>>)],
      [cuisines |-> PyList(<< >>), tastes |-> PyList(<<Title("spicy")>>),
       diet |-> "Vegan", price_range |-> PyTuple(<<2, 2>>)] }

SearchInputs ==
    UISearchInputs \cup
    { [cuisines |-> PyList(<<Lower("italian")>>), tastes |-> PyList(<< >>),
       diet |-> "Vegetarian", price_range |-> PyList(<<1, 3>>)] }

Usernames == {"ann", "bob"}

Emotions == {"happy", "neutral", "sad"}

\* ------------------------------------------------------------------- state
VARIABLES
    users,          \* Users table, user_id = index
    searches,       \* Searches table in rowid order
    interactions,   \* Interactions table in rowid order
    now,            \* CURRENT_TIMESTAMP, in seconds
    rf_model,       \* data_ml.rf_model: None or a heap id
    heap,           \* the model objects ever created
    model_file,     \* the artifact at MODEL_PATH
    session,        \* st.session_state of each browser session
    pc,             \* where each session's running handler stands
    loc,            \* the running handler's local variables
    out             \* what each session's last finished call returned or raised

vars == << users, searches, interactions, now, rf_model, heap, model_file,
           session, pc, loc, out >>

store == << users, searches, interactions >>

model == << rf_model, heap, model_file >>

\* ------------------------------------------------------------ store reads
HasUser(U, user_id) == user_id \in 1..Len(U)

\* get_user_data: the row's three encoder fields (raises ValueError without a row)
get_user_data(U, user_id) ==
    [temperature_bias |-> U[user_id].temperature_bias,
     tourist_bias |-> U[user_id].tourist_bias,
     emotion |-> U[user_id].emotion]

\* rowids of the user's searches, ascending
SearchesOf(S, user_id) == {i \in 1..Len(S) : S[i].user_id = user_id}

\* ORDER BY timestamp DESC LIMIT 1: a row of greatest timestamp; SQL leaves the
\* choice among equal timestamps open, so every such row is a possible answer
RecentSearchRows(S, user_id) ==
    {i \in SearchesOf(S, user_id) :
        \A j \in SearchesOf(S, user_id) : S[j].timestamp <= S[i].timestamp}

\* the dict get_recent_search builds from row i
recent_search_dict(S, i) ==
    [cuisines |-> json_loads(S[i].cuisines),
     tastes |-> json_loads(S[i].tastes),
     diet |-> S[i].diet,
     price_range |-> json_loads(S[i].price_range)]

\* searches_df[searches_df['user_id'] == user_id].iloc[-1]: last row in rowid order
LastSearchRow(S, user_id) ==
    CHOOSE i \in SearchesOf(S, user_id) : \A j \in SearchesOf(S, user_id) : j <= i

\* ---------------------------------------------------------------- encoders
\* price_min, price_max of the prediction path, with its [1, 4] fallback
price_pair(price_range) ==
    IF price_range.t = "list" /\ Len(price_range.v) = 2
    THEN price_range.v
    ELSE <<1, 4>>

prepare_feature_vector(user_info, recent_search) ==
    LET temperature_bias == dict_get(user_info, "temperature_bias", 5)
        tourist_bias == dict_get(user_info, "tourist_bias", 5)
        emotion == emotion_map(dict_get(user_info, "emotion", "neutral"))
        cuisines == title_all(dict_get(recent_search, "cuisines", PyList(<< >>)))
        tastes == title_all(dict_get(recent_search, "tastes", PyList(<< >>)))
        diet == dict_get(recent_search, "diet", "None")
        price_range == dict_get(recent_search, "price_range", PyList(<<1, 4>>))
    IN  << temperature_bias, tourist_bias, emotion >>
        \o one_hot(all_cuisines, cuisines)
        \o one_hot(all_tastes, tastes)
        \o diet_vector(diet)
        \o price_pair(price_range)

\* price_range[0] and price_range[1] raise IndexError on a list shorter than
\* two and TypeError on None or an int
training_row_raises(search_row) ==
    LET price_range == json_loads(search_row.price_range)
    IN  price_range.t # "list" \/ Len(price_range.v) < 2

\* the feature_vector the training loop builds from a Users row and a Searches row
training_row(user_row, search_row) ==
    LET emotion == emotion_map(user_row.emotion)
        cuisines == json_loads(search_row.cuisines)
        tastes == json_loads(search_row.tastes)
        price_range == json_loads(search_row.price_range)
    IN  << user_row.temperature_bias, user_row.tourist_bias, emotion >>
        \o one_hot(all_cuisines, cuisines)
        \o one_hot(all_tastes, tastes)
        \o diet_vector(search_row.diet)
        \o << price_range.v[1], price_range.v[2] >>

\* the interactions the loop keeps: those whose user has a search (the others
\* take the `continue`), in rowid order
RetainedInteractions(S, I) ==
    LET F[n \in 0..Len(I)] ==
            IF n = 0 THEN << >>
            ELSE IF SearchesOf(S, I[n].user_id) = {} THEN F[n - 1]
            ELSE Append(F[n - 1], n)
    IN  F[Len(I)]

\* the loop raises when a kept interaction has no Users row or its joined
\* search has a price_range shorter than two
prepare_training_data_raises(U, S, I) ==
    \/ \E n \in 1..Len(I) : ~HasUser(U, I[n].user_id)
    \/ \E n \in 1..Len(I) :
          /\ SearchesOf(S, I[n].user_id) # {}
          /\ training_row_raises(S[LastSearchRow(S, I[n].user_id)])

\* prepare_training_data with the labels read by position in the table instead
\* of from the interaction each kept row came from
prepare_training_data_misaligned(U, S, I) ==
    LET kept == RetainedInteractions(S, I)
    IN  [X |-> [k \in 1..Len(kept) |->
                  training_row(U[I[kept[k]].user_id],
                               S[LastSearchRow(S, I[kept[k]].user_id)])],
         y |-> [k \in 1..Len(kept) |-> I[k].feedback]]

\* prepare_training_data joining the first kept interaction to its user's
\* first search and the others to the last
prepare_training_data_first_to_first(U, S, I) ==
    LET kept == RetainedInteractions(S, I)
        first(u) == CHOOSE i \in SearchesOf(S, u) : \A j \in SearchesOf(S, u) : i <= j
    IN  [X |-> [k \in 1..Len(kept) |->
                  training_row(U[I[kept[k]].user_id],
                               S[IF k = 1 THEN first(I[kept[k]].user_id)
                                 ELSE LastSearchRow(S, I[kept[k]].user_id)])],
         y |-> [k \in 1..Len(kept) |-> I[kept[k]].feedback]]

prepare_training_data(U, S, I) ==
    LET kept == RetainedInteractions(S, I)
    IN  [X |-> [k \in 1..Len(kept) |->
                  training_row(U[I[kept[k]].user_id],
                               S[LastSearchRow(S, I[kept[k]].user_id)])],
         y |-> [k \in 1..Len(kept) |-> I[kept[k]].feedback]]

\* ------------------------------------------------------------------ models
\* a RandomForestClassifier object: fitted or not, and the data it was fitted on
\* (random_state=42 makes the fitted forest a function of that data)
\* seen is bookkeeping: how many Searches rows the extraction behind X, y read
NewClassifier == [fitted |-> FALSE, X |-> << >>, y |-> << >>, seen |-> 0]

\* an artifact left at MODEL_PATH by an earlier run of the application
ShippedModel ==
    [fitted |-> TRUE,
     X |-> << <<5, 5, 1>> \o one_hot(all_cuisines, PyList(<< >>))
              \o one_hot(all_tastes, PyList(<< >>)) \o <<0, 0, 1, 1, 4>> >>,
     y |-> <<1>>, seen |-> 0]

NoFile == [st |-> "absent", m |-> NewClassifier]

\* the classes a fitted forest can answer with: the labels it was fitted on
classes(m) == {m.y[k] : k \in 1..Len(m.y)}

\* ----------------------------------------------------------------- sessions
NoLocals ==
    [X |-> << >>, y |-> << >>, seen |-> 0, row |-> 0, ret |-> "", username |-> "",
     user_info |-> [temperature_bias |-> 0, tourist_bias |-> 0, emotion |-> ""],
     recent_search |-> 0]

NoOutcome == [op |-> "", res |-> "", cause |-> "", pred |-> -1]

Outcome(op, res, cause) == [op |-> op, res |-> res, cause |-> cause, pred |-> -1]

Idle(s) == pc[s] = "idle"

LoggedIn(s) == session[s].user_id # None

\* module import of data_ml (lines 15-21) and init_db on an empty database
Init ==
    /\ users = << >>
    /\ searches = << >>
    /\ interactions = << >>
    /\ now = 0
    /\ model_file \in {NoFile, [st |-> "ok", m |-> ShippedModel]}
    /\ heap = IF model_file.st = "ok" THEN << model_file.m >> ELSE << >>
    /\ rf_model = IF model_file.st = "ok" THEN 1 ELSE None
    /\ session = [s \in Sessions |-> [user_id |-> None]]
    /\ pc = [s \in Sessions |-> "idle"]
    /\ loc = [s \in Sessions |-> NoLocals]
    /\ out = [s \in Sessions |-> NoOutcome]

\* the clock of CURRENT_TIMESTAMP moves on by a second
Tick ==
    /\ now < MaxTime
    /\ now' = now + 1
    /\ UNCHANGED << users, searches, interactions, rf_model, heap, model_file,
                    session, pc, loc, out >>

\* ------------------------------------------------------------- store writes
UserIdOf(U, username) == CHOOSE i \in 1..Len(U) : U[i].username = username

\* the text of a JSON object, as its key/value pairs; '{}' has none
json_object(pairs) == [js |-> "object", v |-> pairs]

\* the row get_or_create_user inserts for a new name (0.5 is 5 tenths)
new_user_row(username) ==
    [username |-> username, temperature_bias |-> 5, tourist_bias |-> 5,
     emotion |-> "neutral", other_preferences |-> json_object(<< >>)]

\* get_or_create_user: the table afterwards, the user_id and is_new_user
get_or_create_user(U, username) ==
    IF \E i \in 1..Len(U) : U[i].username = username
    THEN [users |-> U, user_id |-> UserIdOf(U, username), is_new_user |-> FALSE]
    ELSE [users |-> Append(U, new_user_row(username)), user_id |-> Len(U) + 1,
          is_new_user |-> TRUE]

\* save_user_setup as a statement that writes the whole row back, the other
\* columns as they were when the user was created
save_user_setup_whole_row(U, user_id, emotion) ==
    [i \in 1..Len(U) |->
        IF i = user_id
        THEN [username |-> U[i].username, temperature_bias |-> 5, tourist_bias |-> 5,
              emotion |-> emotion, other_preferences |-> [js |-> "object", v |-> << >>]]
        ELSE U[i]]

\* UPDATE Users SET emotion=? WHERE user_id=?  (no row, no change)
save_user_setup(U, user_id, emotion) ==
    [i \in 1..Len(U) |-> IF i = user_id THEN [U[i] EXCEPT !.emotion = emotion] ELSE U[i]]

\* mapping.get(q, 3) of calculate_temperature_bias
agreement(q) ==
    CASE q = "Strongly Agree" -> 5
      [] q = "Agree" -> 4
      [] q = "Indifferent" -> 3
      [] q = "Disagree" -> 2
      [] q = "Strongly Disagree" -> 1
      [] OTHER -> 3

\* calculate_temperature_bias without the division by 10
calculate_temperature_bias_undivided(q1, q2) == 10 * (agreement(q1) + agreement(q2))

\* (cold_bias + warm_bias) / 10, in tenths
calculate_temperature_bias(q1, q2) == agreement(q1) + agreement(q2)

\* mapping.get(q3, 0.5), in tenths
calculate_tourist_bias(q3) ==
    CASE q3 = "Strongly Agree" -> 10
      [] q3 = "Agree" -> 8
      [] q3 = "Indifferent" -> 5
      [] q3 = "Disagree" -> 2
      [] q3 = "Strongly Disagree" -> 0
      [] OTHER -> 5

\* UPDATE Users SET other_preferences=?, temperature_bias=?, tourist_bias=?
\* WHERE user_id=?
save_user_preferences(U, user_id, q1, q2, q3) ==
    LET preferences_json == json_object(<< <<"q1", q1>>, <<"q2", q2>>, <<"q3", q3>> >>)
    IN  [i \in 1..Len(U) |->
            IF i = user_id
            THEN [U[i] EXCEPT !.other_preferences = preferences_json,
                              !.temperature_bias = calculate_temperature_bias(q1, q2),
                              !.tourist_bias = calculate_tourist_bias(q3)]
            ELSE U[i]]

\* the username box of setup(): get_or_create_user, user_id kept in the session
Login(s, username) ==
    /\ Idle(s)
    /\ ~LoggedIn(s)
    /\ LET r == get_or_create_user(users, username)
       IN  /\ users' = r.users
           /\ session' = [session EXCEPT ![s].user_id = r.user_id]
    /\ UNCHANGED << searches, interactions, now, rf_model, heap, model_file,
                    pc, loc, out >>

\* the Searches row save_search_query inserts; the location and emotion columns
\* are written and never read back, and are left out
search_row(user_id, in, timestamp) ==
    [user_id |-> user_id,
     cuisines |-> json_dumps(in.cuisines),
     tastes |-> json_dumps(in.tastes),
     diet |-> in.diet,
     price_range |-> json_dumps(in.price_range),
     timestamp |-> timestamp]

\* save_search_query as an upsert that keeps one search per user
save_search_query_upsert(S, user_id, in, timestamp) ==
    Append(SelectSeq(S, LAMBDA r : r.user_id # user_id), search_row(user_id, in, timestamp))

save_search_query(S, user_id, in, timestamp) ==
    Append(S, search_row(user_id, in, timestamp))

\* meal_id_map.get(meal_id_index, "Unknown")
meal_id_map(meal_id_index) ==
    CASE meal_id_index = 0 -> "Italian"
      [] meal_id_index = 1 -> "American"
      [] meal_id_index = 2 -> "Mexican"
      [] meal_id_index = 3 -> "Japanese"
      [] meal_id_index = 4 -> "Asian"
      [] meal_id_index = 5 -> "European"
      [] meal_id_index = 6 -> "Mediterranean"
      [] meal_id_index = 7 -> "Thai"
      [] OTHER -> "Unknown"

record_interaction(I, user_id, meal_id_index, feedback) ==
    Append(I, [user_id |-> user_id, meal_id |-> meal_id_map(meal_id_index),
               feedback |-> feedback])

MealIndices == {0, 8}

\* a finished call's result has been shown; the session waits for the next click
Done(s) ==
    /\ pc[s] = "done"
    /\ pc' = [pc EXCEPT ![s] = "idle"]
    /\ out' = [out EXCEPT ![s] = NoOutcome]
    /\ UNCHANGED << users, searches, interactions, now, rf_model, heap,
                    model_file, session, loc >>

\* a like or dislike click: record_interaction for the session's user
RecordInteraction(s, meal_id_index, feedback) ==
    /\ Idle(s)
    /\ LoggedIn(s)
    /\ Len(interactions) < MaxInteractions
    /\ interactions' =
          record_interaction(interactions, session[s].user_id, meal_id_index, feedback)
    /\ UNCHANGED << users, searches, now, rf_model, heap, model_file,
                    session, pc, loc, out >>

\* ----------------------------------------------------------- retrain_model
\* Each step below is one statement of retrain_model; other sessions' threads
\* may run between two of them.  A step that raises ends the handler that
\* called retrain_model: nothing in the call chain catches it.
Return(s, outcome) ==
    /\ pc' = [pc EXCEPT ![s] = "done"]
    /\ loc' = [loc EXCEPT ![s] = NoLocals]
    /\ out' = [out EXCEPT ![s] = outcome]

Raise(s, op, cause) == Return(s, Outcome(op, "error", cause))

\* R_Extract without the len(X) == 0 test: an empty extraction goes on to fit
R_Extract_no_empty_test(s) ==
    /\ pc[s] = "retrain"
    /\ LET d == prepare_training_data(users, searches, interactions)
       IN  /\ out' = out
           /\ pc' = [pc EXCEPT ![s] = "install"]
           /\ loc' = [loc EXCEPT ![s].X = d.X, ![s].y = d.y, ![s].seen = Len(searches)]
    /\ UNCHANGED << users, searches, interactions, now, rf_model, heap,
                    model_file, session >>

\* X, y = prepare_training_data(DB_PATH), then the len(X) == 0 test
R_Extract(s) ==
    /\ pc[s] = "retrain"
    /\ IF prepare_training_data_raises(users, searches, interactions)
       THEN Raise(s, "retrain", "extract")
       ELSE LET d == prepare_training_data(users, searches, interactions)
            IN  /\ out' = out
                /\ IF Len(d.X) = 0 \/ Len(d.y) = 0
                   THEN /\ pc' = [pc EXCEPT ![s] = "lookup"]
                        /\ loc' = [loc EXCEPT ![s].ret = "InsufficientData"]
                   ELSE /\ pc' = [pc EXCEPT ![s] = "install"]
                        /\ loc' = [loc EXCEPT ![s].X = d.X, ![s].y = d.y,
                                              ![s].seen = Len(searches)]
    /\ UNCHANGED << users, searches, interactions, now, rf_model, heap,
                    model_file, session >>

\* rf_model = RandomForestClassifier(random_state=42)
R_Install(s) ==
    /\ pc[s] = "install"
    /\ heap' = Append(heap, NewClassifier)
    /\ rf_model' = Len(heap) + 1
    /\ pc' = [pc EXCEPT ![s] = "fit"]
    /\ UNCHANGED << users, searches, interactions, now, model_file, session,
                    loc, out >>

\* the object rf_model.fit(X, y) leaves behind
fitted_classifier(X, y, seen) == [fitted |-> TRUE, X |-> X, y |-> y, seen |-> seen]

\* rf_model.fit(X, y): fits whatever object the global names at this moment;
\* fit_ok is whether sklearn's fit returns or raises (MemoryError, ValueError)
R_Fit(s) ==
    /\ pc[s] = "fit"
    /\ \E fit_ok \in BOOLEAN :
          IF fit_ok
          THEN /\ heap' = [heap EXCEPT ![rf_model] =
                              fitted_classifier(loc[s].X, loc[s].y, loc[s].seen)]
               /\ pc' = [pc EXCEPT ![s] = "save"]
               /\ UNCHANGED << loc, out >>
          ELSE /\ heap' = heap
               /\ Raise(s, "retrain", "fit")
    /\ UNCHANGED << users, searches, interactions, now, rf_model, model_file,
                    session >>

\* open(path, "wb") truncates the artifact; pickle.dump then writes the object
save_model(m, write_ok) ==
    IF write_ok THEN [st |-> "ok", m |-> m] ELSE [st |-> "partial", m |-> NewClassifier]

\* save_model(rf_model): pickles whatever object the global names at this
\* moment; write_ok is whether pickle.dump completes or raises OSError
R_Save(s) ==
    /\ pc[s] = "save"
    /\ \E write_ok \in BOOLEAN :
          /\ model_file' = save_model(heap[rf_model], write_ok)
          /\ IF write_ok
             THEN /\ pc' = [pc EXCEPT ![s] = "lookup"]
                  /\ loc' = [loc EXCEPT ![s].ret = "ok"]
                  /\ out' = out
             ELSE Raise(s, "retrain", "save")
    /\ UNCHANGED << users, searches, interactions, now, rf_model, heap, session >>

\* ------------------------------------------------- LAUNCHER: Find Restaurants
\* the button with a location typed in: save_search_query, then retrain_model()
FR_Save(s, in) ==
    /\ Idle(s)
    /\ LoggedIn(s)
    /\ Len(searches) < MaxSearches
    /\ searches' = save_search_query(searches, session[s].user_id, in, now)
    /\ pc' = [pc EXCEPT ![s] = "retrain"]
    /\ loc' = [loc EXCEPT ![s] = [NoLocals EXCEPT !.row = Len(searches) + 1]]
    /\ UNCHANGED << users, interactions, now, rf_model, heap, model_file,
                    session, out >>

\* get_restaurant_results and the page that shows them
FR_Lookup(s) ==
    /\ pc[s] = "lookup"
    /\ Return(s, Outcome("find", "done", loc[s].ret))
    /\ UNCHANGED << users, searches, interactions, now, rf_model, heap,
                    model_file, session >>

\* ---------------------------------------------- predict_meal_recommendations
\* `if rf_model is None: raise ValueError`, re-raised as RuntimeError
P_Check(s) ==
    /\ Idle(s)
    /\ IF rf_model = None
       THEN Raise(s, "predict", "ModelNotLoaded")
       ELSE /\ pc' = [pc EXCEPT ![s] = "predict"]
            /\ UNCHANGED << loc, out >>
    /\ UNCHANGED << users, searches, interactions, now, rf_model, heap,
                    model_file, session >>

\* what m.predict([feature_vector])[0] can give: a class of the fitted forest,
\* or sklearn's NotFittedError on an object that fit has not completed on
predict_results(m) ==
    IF m.fitted
    THEN {[op |-> "predict", res |-> "ok", cause |-> "", pred |-> c] : c \in classes(m)}
    ELSE {Outcome("predict", "error", "NotFitted")}

\* rf_model.predict([feature_vector])[0] on the object the global names now
P_Call(s) ==
    /\ pc[s] = "predict"
    /\ \E r \in predict_results(heap[rf_model]) : Return(s, r)
    /\ UNCHANGED << users, searches, interactions, now, rf_model, heap,
                    model_file, session >>

\* ------------------------------------------------------ LAUNCHER: Surprise Me
\* the names LAUNCHER.py imports from data_ml (lines 10-22); rf_model is not one
LauncherNames ==
    {"init_db", "get_or_create_user", "record_interaction", "save_user_setup",
     "save_user_preferences", "save_search_query", "predict_meal_recommendations",
     "prepare_feature_vector", "get_user_data", "get_recent_search", "retrain_model"}

\* the selection with `if prediction` in place of `if prediction == 1`
select_query_keywords_truthy(prediction, recent_search) ==
    IF prediction # 0 THEN recent_search.cuisines ELSE PyList(<<Lower("restaurant")>>)

\* keywords = recent_search['cuisines'] if prediction == 1 else ["restaurant"]
select_query_keywords(prediction, recent_search) ==
    IF prediction = 1 THEN recent_search.cuisines ELSE PyList(<<Lower("restaurant")>>)

\* get_user_data and get_recent_search; a missing row raises ValueError, which
\* the handler wraps in RuntimeError and main shows with st.error
SM_Fetch(s) ==
    /\ Idle(s)
    /\ LoggedIn(s)
    /\ IF RecentSearchRows(searches, session[s].user_id) = {}
       THEN Return(s, Outcome("surprise", "RecommendationError", "NoRecentSearch"))
       ELSE /\ \E i \in RecentSearchRows(searches, session[s].user_id) :
                  loc' = [loc EXCEPT ![s] =
                             [NoLocals EXCEPT
                                 !.user_info = get_user_data(users, session[s].user_id),
                                 !.recent_search = recent_search_dict(searches, i)]]
            /\ pc' = [pc EXCEPT ![s] = "surprise"]
            /\ out' = out
    /\ UNCHANGED << users, searches, interactions, now, rf_model, heap,
                    model_file, session >>

\* SM_Predict without the handler's `except Exception`: the NameError reaches
\* main as it is
SM_Predict_unwrapped(s) ==
    /\ pc[s] = "surprise"
    /\ Return(s, Outcome("surprise", "error", "NameError"))
    /\ UNCHANGED << users, searches, interactions, now, rf_model, heap,
                    model_file, session >>

\* prepare_feature_vector, then `rf_model.predict(...)`: the global name
\* rf_model is looked up in LAUNCHER.py, which never binds it, so the lookup
\* raises NameError before any model is consulted; wrapped and shown as above
SM_Predict(s) ==
    /\ pc[s] = "surprise"
    /\ IF "rf_model" \in LauncherNames
       THEN \E r \in predict_results(heap[rf_model]) : Return(s, r)
       ELSE Return(s, Outcome("surprise", "RecommendationError", "NameError"))
    /\ UNCHANGED << users, searches, interactions, now, rf_model, heap,
                    model_file, session >>

\* ------------------------------------------------------------------ restart
\* The server process is stopped between requests and started again: the
\* database and the artifact stay, the sessions are gone, and the import of
\* data_ml loads rf_model from the artifact (lines 15-21).  pickle.load raises
\* on a truncated artifact, so such a process does not come up.
Restart ==
    /\ \A s \in Sessions : Idle(s)
    /\ model_file.st # "partial"
    /\ heap' = IF model_file.st = "ok" THEN << model_file.m >> ELSE << >>
    /\ rf_model' = IF model_file.st = "ok" THEN 1 ELSE None
    /\ session' = [s \in Sessions |-> [user_id |-> None]]
    /\ UNCHANGED << users, searches, interactions, now, model_file, pc, loc, out >>

\* -------------------------------------------------------------- the program
\* The application: sessions log in, click likes and dislikes, press Find
\* Restaurants and Surprise Me, and call predict_meal_recommendations.  The
\* clock stands still, which makes every search of a user a possible answer of
\* get_recent_search.
Next ==
    \/ \E s \in Sessions, username \in Usernames : Login(s, username)
    \/ \E s \in Sessions, f \in {0, 1} :
          Len(interactions) < MaxClicks /\ RecordInteraction(s, 0, f)
    \/ \E s \in Sessions, in \in UISearchInputs : FR_Save(s, in)
    \/ \E s \in Sessions : R_Extract(s)
    \/ \E s \in Sessions : R_Install(s)
    \/ \E s \in Sessions : R_Fit(s)
    \/ \E s \in Sessions : R_Save(s)
    \/ \E s \in Sessions : FR_Lookup(s)
    \/ \E s \in Sessions : P_Check(s)
    \/ \E s \in Sessions : P_Call(s)
    \/ \E s \in Sessions : SM_Fetch(s)
    \/ \E s \in Sessions : SM_Predict(s)
    \/ \E s \in Sessions : Done(s)
    \/ Restart

Spec == Init /\ [][Next]_vars

\* ------------------------------------------------------- the store interface
\* data_ml's functions called directly, one call at a time, by a caller that
\* names the user; Caller is the session slot that holds the call's result
Caller == CHOOSE s \in Sessions : \A t \in Sessions : s <= t

UserIds == 1..Len(users)

\* get_or_create_user(username) for a name not yet in the table (for a known
\* name the call reads the row and changes nothing)
GetOrCreateUser(username) ==
    /\ Idle(Caller)
    /\ users' = get_or_create_user(users, username).users
    /\ users' # users
    /\ UNCHANGED << searches, interactions, now, rf_model, heap, model_file,
                    session, pc, loc, out >>

\* record_interaction(user_id, meal_id_index, feedback)
RecordInteractionCall(user_id, meal_id_index, feedback) ==
    /\ Idle(Caller)
    /\ Len(interactions) < MaxInteractions
    /\ interactions' = record_interaction(interactions, user_id, meal_id_index, feedback)
    /\ UNCHANGED << users, searches, now, rf_model, heap, model_file,
                    session, pc, loc, out >>

\* save_search_query(user_id, cuisines, tastes, diet, price_range, ...)
SaveSearchQueryCall(user_id, in) ==
    /\ Idle(Caller)
    /\ Len(searches) < MaxSearches
    /\ searches' = save_search_query(searches, user_id, in, now)
    /\ UNCHANGED << users, interactions, now, rf_model, heap, model_file,
                    session, pc, loc, out >>

\* the user_id arguments record_interaction is called with: a user's id, or the
\* None that setup() holds in st.session_state.user_id after its
\* get_or_create_user call raised (line 138 has stored the username by then,
\* so the mood buttons and the carousel follow with user_id None)
InteractionUserIds == UserIds \cup {None}

\* prepare_training_data(DB_PATH); the result is held until Done
T_Extract ==
    /\ Idle(Caller)
    /\ IF prepare_training_data_raises(users, searches, interactions)
       THEN Raise(Caller, "extract", "IndexError")
       ELSE LET d == prepare_training_data(users, searches, interactions)
            IN  Return(Caller, [op |-> "extract", res |-> "ok", cause |-> "",
                                pred |-> -1, X |-> d.X, y |-> d.y])
    /\ UNCHANGED << users, searches, interactions, now, rf_model, heap,
                    model_file, session >>

\* the prediction path's encoding for a user: get_user_data, get_recent_search,
\* prepare_feature_vector; the result is held until Done
T_Encode(user_id) ==
    /\ Idle(Caller)
    /\ IF RecentSearchRows(searches, user_id) = {}
       THEN Raise(Caller, "encode", "NoRecentSearch")
       ELSE \E i \in RecentSearchRows(searches, user_id) :
               Return(Caller, [op |-> "encode", res |-> "ok", cause |-> "",
                               pred |-> -1, user_id |-> user_id, row |-> i,
                               fv |-> prepare_feature_vector(
                                         get_user_data(users, user_id),
                                         recent_search_dict(searches, i))])
    /\ UNCHANGED << users, searches, interactions, now, rf_model, heap,
                    model_file, session >>

InitStore == Init /\ model_file = NoFile

NextStore ==
    \/ Tick
    \/ \E username \in Usernames : GetOrCreateUser(username)
    \/ \E u \in InteractionUserIds, i \in MealIndices, f \in {0, 1} :
          RecordInteractionCall(u, i, f)
    \/ \E u \in UserIds, in \in SearchInputs : SaveSearchQueryCall(u, in)
    \/ T_Extract
    \/ \E u \in UserIds : T_Encode(u)
    \/ Done(Caller)

SpecStore == InitStore /\ [][NextStore]_vars

\* ------------------------------------------------------ the keyword selection
\* Inputs of the pure functions: one user row and one search on file.
EncCuisineLists ==
    { PyList(<< >>), PyList(<<Title("italian")>>), PyList(<<Lower("thai")>>),
      PyList(<<Title("chinese"), Title("mexican")>>),
      PyList(<<Upper("asian"), Title("asian")>>) }

EncTasteLists == { PyList(<< >>), PyList(<<Lower("sweet"), Title("spicy")>>) }

EncDiets == {"None", "Vegetarian", "Vegan", "Keto"}

EncPrices == { PyTuple(<<1, 4>>), PyList(<<1, 3>>), PyList(<<2, 2>>) }

EncSearchInputs ==
    { [cuisines |-> c, tastes |-> t, diet |-> d, price_range |-> p] :
        c \in EncCuisineLists, t \in EncTasteLists, d \in EncDiets, p \in EncPrices }

\* what a fitted forest may answer: a feedback value it has seen
Predictions == {0, 1, 2}

\* lines 344 and 358 of surprise_me_recommendation on a given prediction
E_Select(user_id, prediction) ==
    /\ Idle(Caller)
    /\ \E i \in RecentSearchRows(searches, user_id) :
          LET recent_search == recent_search_dict(searches, i)
          IN  Return(Caller, [op |-> "select", res |-> "ok", cause |-> "", pred |-> prediction,
                              keywords |-> select_query_keywords(prediction, recent_search)])
    /\ UNCHANGED << users, searches, interactions, now, rf_model, heap,
                    model_file, session >>

InitEnc ==
    /\ users = << new_user_row("ann") >>
    /\ \E in \in EncSearchInputs : searches = save_search_query(<< >>, 1, in, 0)
    /\ interactions = << >>
    /\ now = 0
    /\ model_file = NoFile
    /\ heap = << >>
    /\ rf_model = None
    /\ session = [s \in Sessions |-> [user_id |-> None]]
    /\ pc = [s \in Sessions |-> "idle"]
    /\ loc = [s \in Sessions |-> NoLocals]
    /\ out = [s \in Sessions |-> NoOutcome]

NextEnc ==
    \/ \E u \in UserIds, p \in Predictions : E_Select(u, p)
    \/ Done(Caller)

SpecEnc == InitEnc /\ [][NextEnc]_vars

\* ------------------------------------------------------------ the Users table
\* The functions that write Users rows, called by two sessions at once.  Each
\* function opens its own connection; SQLite runs one statement at a time, so
\* a step below is one statement with its commit.
MoodButtons == {"happy", "neutral", "sad"}

\* answers q1, q2, q3 handed to save_user_preferences: the ends of the scale,
\* and strings that are not on the scale
SurveyInputs ==
    { << "Strongly Agree", "Strongly Agree", "Strongly Agree" >>,
      << "Strongly Disagree", "Strongly Disagree", "Strongly Disagree" >>,
      << "Maybe", "Agree", "Never" >> }

\* the user_info dict get_or_create_user returns for row i
user_info_of(U, i) ==
    [user_id |-> i, temperature_bias |-> U[i].temperature_bias,
     tourist_bias |-> U[i].tourist_bias, emotion |-> U[i].emotion,
     other_preferences |-> U[i].other_preferences]

get_or_create_user_result(username, user_info, is_new_user) ==
    [op |-> "get_or_create_user", res |-> "ok", cause |-> "", pred |-> -1,
     username |-> username, user_info |-> user_info, is_new_user |-> is_new_user]

\* get_or_create_user, the SELECT: an existing row is returned, is_new_user False
U_Select(s, username) ==
    /\ Idle(s)
    /\ IF \E i \in 1..Len(users) : users[i].username = username
       THEN LET i == UserIdOf(users, username)
            IN  /\ Return(s, get_or_create_user_result(username, user_info_of(users, i), FALSE))
                /\ session' = [session EXCEPT ![s].user_id = i]
       ELSE /\ pc' = [pc EXCEPT ![s] = "insert"]
            /\ loc' = [loc EXCEPT ![s].username = username]
            /\ UNCHANGED << out, session >>
    /\ UNCHANGED << users, searches, interactions, now, rf_model, heap, model_file >>

\* U_Insert on a table without the UNIQUE constraint on username
U_Insert_no_unique(s) ==
    /\ pc[s] = "insert"
    /\ users' = Append(users, new_user_row(loc[s].username))
    /\ Return(s, get_or_create_user_result(loc[s].username,
                                           user_info_of(users', Len(users')), TRUE))
    /\ session' = [session EXCEPT ![s].user_id = Len(users')]
    /\ UNCHANGED << searches, interactions, now, rf_model, heap, model_file >>

\* get_or_create_user, the INSERT and commit: username is UNIQUE (line 44), so
\* the statement raises sqlite3.IntegrityError when another call has inserted
\* the name since this call's SELECT; nothing in setup() catches it
U_Insert(s) ==
    /\ pc[s] = "insert"
    /\ IF \E i \in 1..Len(users) : users[i].username = loc[s].username
       THEN /\ Raise(s, "get_or_create_user", "IntegrityError")
            /\ UNCHANGED << users, session >>
       ELSE /\ users' = Append(users, new_user_row(loc[s].username))
            /\ Return(s, get_or_create_user_result(loc[s].username,
                                                   user_info_of(users', Len(users')), TRUE))
            /\ session' = [session EXCEPT ![s].user_id = Len(users')]
    /\ UNCHANGED << searches, interactions, now, rf_model, heap, model_file >>

\* a mood button of setup(): save_user_setup(user_id, emotion)
Mood(s, emotion) ==
    /\ Idle(s)
    /\ LoggedIn(s)
    /\ users' = save_user_setup(users, session[s].user_id, emotion)
    /\ Return(s, [op |-> "save_user_setup", res |-> "ok", cause |-> "", pred |-> -1,
                  user_id |-> session[s].user_id, emotion |-> emotion])
    /\ UNCHANGED << searches, interactions, now, rf_model, heap, model_file, session >>

\* "Save and proceed to finder": save_user_preferences(user_id, q1, q2, q3)
Survey(s, q) ==
    /\ Idle(s)
    /\ LoggedIn(s)
    /\ users' = save_user_preferences(users, session[s].user_id, q[1], q[2], q[3])
    /\ Return(s, [op |-> "save_user_preferences", res |-> "ok", cause |-> "", pred |-> -1,
                  user_id |-> session[s].user_id, q |-> q])
    /\ UNCHANGED << searches, interactions, now, rf_model, heap, model_file, session >>

NextUsers ==
    \/ \E s \in Sessions, username \in Usernames : U_Select(s, username)
    \/ \E s \in Sessions : U_Insert(s)
    \/ \E s \in Sessions, emotion \in MoodButtons : Mood(s, emotion)
    \/ \E s \in Sessions, q \in SurveyInputs : Survey(s, q)
    \/ \E s \in Sessions : Done(s)

SpecUsers == InitStore /\ [][NextUsers]_vars

\* ------------------------------------------------------ one session, all of it
\* Every operation of the application and of the store interface, run by one
\* session one after the other; a restart lets the next user log in.
NextSession ==
    \/ \E username \in Usernames : Login(Caller, username)
    \/ Mood(Caller, "sad")
    \/ \E f \in {0, 1} : Len(interactions) < MaxClicks /\ RecordInteraction(Caller, 0, f)
    \/ Survey(Caller, << "Agree", "Agree", "Disagree" >>)
    \/ \E in \in UISearchInputs : FR_Save(Caller, in)
    \/ R_Extract(Caller)
    \/ R_Install(Caller)
    \/ R_Fit(Caller)
    \/ R_Save(Caller)
    \/ FR_Lookup(Caller)
    \/ P_Check(Caller)
    \/ P_Call(Caller)
    \/ SM_Fetch(Caller)
    \/ SM_Predict(Caller)
    \/ Done(Caller)
    \/ Restart

SpecSession == Init /\ [][NextSession]_vars

\* ------------------------------------------------- the encoders as functions
\* One user row, one search of that user and one interaction on file; the two
\* encoders are applied to them.  The search is whatever save_search_query was
\* handed: any case of the strings, any diet string, any price_range value.
VecCuisineLists == EncCuisineLists \cup { PyList(<<Lower("italian")>>) }

VecDiets == EncDiets \cup {"vegan"}

VecPrices ==
    EncPrices \cup
    { PyList(<< >>), PyList(<<3>>), PyList(<<1, 2, 3>>), PyNone, PyInt(2) }

VecSearchInputs ==
    { [cuisines |-> c, tastes |-> t, diet |-> d, price_range |-> p] :
        c \in VecCuisineLists, t \in EncTasteLists, d \in VecDiets, p \in VecPrices }

\* a new user's row; the row after the survey (Agree, Agree, Disagree) and the
\* happy button; the row after the sad button
VecUserTables ==
    { << new_user_row("ann") >>,
      save_user_setup(
          save_user_preferences(<< new_user_row("ann") >>, 1, "Agree", "Agree", "Disagree"),
          1, "happy"),
      save_user_setup(<< new_user_row("ann") >>, 1, "sad") }

\* the keys of the recent_search dict
SearchKeys == {"cuisines", "tastes", "diet", "price_range"}

\* prepare_feature_vector called with a dict of the caller's own making: the
\* user's search with the keys in absent left out and price_range as given
V_Direct(user_id, absent, price_range) ==
    /\ Idle(Caller)
    /\ \E i \in RecentSearchRows(searches, user_id) :
          LET full == [recent_search_dict(searches, i) EXCEPT !.price_range = price_range]
              recent_search == [k \in SearchKeys \ absent |-> full[k]]
          IN  Return(Caller, [op |-> "direct", res |-> "ok", cause |-> "", pred |-> -1,
                              user_id |-> user_id, row |-> i, absent |-> absent,
                              price_range |-> price_range,
                              fv |-> prepare_feature_vector(get_user_data(users, user_id),
                                                            recent_search)])
    /\ UNCHANGED << users, searches, interactions, now, rf_model, heap,
                    model_file, session >>

InitVec ==
    /\ users \in VecUserTables
    /\ \E in \in VecSearchInputs : searches = save_search_query(<< >>, 1, in, 0)
    /\ \E f \in {0, 1} : interactions = record_interaction(<< >>, 1, 0, f)
    /\ now = 0
    /\ model_file = NoFile
    /\ heap = << >>
    /\ rf_model = None
    /\ session = [s \in Sessions |-> [user_id |-> None]]
    /\ pc = [s \in Sessions |-> "idle"]
    /\ loc = [s \in Sessions |-> NoLocals]
    /\ out = [s \in Sessions |-> NoOutcome]

NextVec ==
    \/ T_Extract
    \/ \E u \in UserIds : T_Encode(u)
    \/ \E u \in UserIds, absent \in {{}, {"price_range"}, {"cuisines", "diet"}},
          p \in {PyList(<<2, 3>>), PyTuple(<<2, 3>>)} : V_Direct(u, absent, p)
    \/ Done(Caller)

SpecVec == InitVec /\ [][NextVec]_vars

\* ==================================================================== claims
\* an interaction's user has a search on file
Usable(n) == \E i \in 1..Len(searches) : searches[i].user_id = interactions[n].user_id

UsableSet == {n \in 1..Len(interactions) : Usable(n)}

\* the k-th usable interaction in rowid order
KthUsable(k) == CHOOSE n \in UsableSet : Cardinality({m \in UsableSet : m <= n}) = k

\* the in-memory model is absent or a fitted forest
MemoryModelWhole == rf_model = None \/ heap[rf_model].fitted

\* the artifact is absent or a complete pickle of a fitted forest
ArtifactWhole ==
    \/ model_file.st = "absent"
    \/ model_file.st = "ok" /\ model_file.m.fitted

\* a retrain_model call stands between installing its classifier and saving it
RetrainInFlight == \E t \in Sessions : pc[t] \in {"install", "fit", "save"}

\* no fit has ever completed in this process and no artifact was loaded
NeverTrained == \A i \in 1..Len(heap) : ~heap[i].fitted

\* C1 (SpecStore): schema identity.  For every interaction kept by
\* prepare_training_data, the row it builds equals the vector that
\* prepare_feature_vector builds from get_user_data and any answer of
\* get_recent_search for the same user on the same tables.
C1_SchemaIdentity ==
    LET d == prepare_training_data(users, searches, interactions)
        kept == RetainedInteractions(searches, interactions)
    IN  \A k \in 1..Len(kept) :
           LET u == interactions[kept[k]].user_id
           IN  \A i \in RecentSearchRows(searches, u) :
                  d.X[k] = prepare_feature_vector(get_user_data(users, u),
                                                  recent_search_dict(searches, i))

\* C2 (Spec): model swap atomicity.  No predict_meal_recommendations call ends
\* in the error of an installed but unfitted classifier.
C2_ModelSwapAtomicity ==
    \A s \in Sessions :
       (pc[s] = "done" /\ out[s].op = "predict") => out[s].cause # "NotFitted"

C4_FailedRetrainKeepsModel ==
    \A s \in Sessions :
       (pc[s] = "done" /\ out[s].op = "retrain" /\ out[s].res = "error"
          /\ ~RetrainInFlight)
       => (MemoryModelWhole /\ ArtifactWhole)

\* C5 (Spec): while no fit has ever completed and no artifact was loaded, a
\* finished predict call has raised the "Model not loaded" error.
C5_PredictWithoutModel ==
    \A s \in Sessions :
       (pc[s] = "done" /\ out[s].op = "predict" /\ NeverTrained)
       => (out[s].res = "error" /\ out[s].cause = "ModelNotLoaded")

\* C6 (Spec): a Surprise Me action that found the user's search, finished while
\* a fitted model is loaded, has obtained a prediction from that model.
C6_SurpriseObtainsPrediction ==
    \A s \in Sessions :
       (pc[s] = "done" /\ out[s].op = "surprise" /\ out[s].cause # "NoRecentSearch"
          /\ rf_model # None /\ heap[rf_model].fitted)
       => (out[s].res = "ok" /\ out[s].pred \in classes(heap[rf_model]))

\* C7 (SpecStore): joins and skips.  A prepare_training_data call returns
\* without error; X has one row per interaction whose user has a search on file
\* and none for the others; y is as long as X and y[k] is the feedback of the
\* k-th such interaction in rowid order.
C7_JoinsAndSkips ==
    (pc[Caller] = "done" /\ out[Caller].op = "extract")
    => /\ out[Caller].res = "ok"
       /\ Len(out[Caller].X) = Cardinality(UsableSet)
       /\ Len(out[Caller].y) = Len(out[Caller].X)
       /\ \A k \in 1..Len(out[Caller].y) :
             out[Caller].y[k] = interactions[KthUsable(k)].feedback

\* C7 witness: an extraction that skipped the first interaction (its user has
\* no search) and kept the second, whose feedback differs
C7_Witness ==
    /\ pc[Caller] = "done"
    /\ out[Caller].op = "extract"
    /\ out[Caller].res = "ok"
    /\ Len(interactions) = 2
    /\ ~Usable(1)
    /\ Usable(2)
    /\ interactions[1].feedback # interactions[2].feedback
    /\ Len(out[Caller].X) = 1

\* C8 (Spec): when a Find Restaurants action that trained on at least one row
\* completes, the current model is fitted on an extraction that read the search
\* the action stored.
C8_SubmitSearchRetrains ==
    [][\A s \in Sessions :
          (pc[s] = "lookup" /\ loc[s].ret = "ok" /\ pc'[s] = "done")
          => /\ rf_model' # None
             /\ heap'[rf_model'].fitted
             /\ heap'[rf_model'].seen >= loc[s].row]_vars

C10_SurpriseFailureHarmless ==
    [][\A s \in Sessions :
          LET started == pc[s] = "idle" /\ pc'[s] = "surprise"
              ended == /\ pc[s] \in {"idle", "surprise"}
                       /\ pc'[s] = "done"
                       /\ out'[s].op = "surprise"
              left == pc[s] = "surprise" /\ pc'[s] # "surprise"
          IN  /\ (started \/ ended \/ left)
                 => UNCHANGED << users, searches, interactions, rf_model, heap,
                                 model_file >>
              /\ left => ended
              /\ ended => out'[s].res = "RecommendationError"
              /\ (pc[s] = "done" /\ out[s].op = "surprise" /\ pc'[s] # "done")
                 => pc'[s] = "idle"]_vars

\* C10 witness: the action failed at the predict step with a fitted model
\* loaded and the user's search on file
C10_Witness ==
    \E s \in Sessions :
       /\ pc[s] = "done"
       /\ out[s].res = "RecommendationError"
       /\ out[s].cause = "NameError"
       /\ rf_model # None
       /\ heap[rf_model].fitted

\* --------------------------------------------------- the model lifecycle claims
\* a retrain_model call is somewhere between its first and its last statement
RetrainRunning == \E t \in Sessions : pc[t] \in {"retrain", "install", "fit", "save"}

\* C15 (Spec): model lifecycle consistency.  Whenever no retrain_model call
\* is running, the in-memory model and the artifact are the same model: both
\* absent, or the artifact a complete pickle equal to the object rf_model names.
C15_ModelLifecycle ==
    ~RetrainRunning
    => \/ rf_model = None /\ model_file.st = "absent"
       \/ /\ rf_model # None
          /\ model_file.st = "ok"
          /\ heap[rf_model] = model_file.m

\* C16 (Spec): exclusive retrain.  A retrain_model call that has fitted and is
\* about to persist finds, under the global name, the classifier fitted on the
\* data this call extracted: no other call's install or fit came in between.
C16_ExclusiveRetrain ==
    \A s \in Sessions :
       pc[s] = "save"
       => heap[rf_model] = fitted_classifier(loc[s].X, loc[s].y, loc[s].seen)

\* the vocabularies as case-free words, in the order of the vector
CuisineWords ==
    << "italian", "american", "mexican", "japanese", "asian", "european",
       "mediterranean", "thai" >>

TasteWords == << "sweet", "salty", "sour", "bitter", "umami", "spicy" >>

\* a stored list names the word, in any case
Mentions(stored, word) == \E i \in 1..Len(stored.v) : stored.v[i].w = word

EmotionCode(e) == CASE e = "sad" -> 0 [] e = "neutral" -> 1 [] e = "happy" -> 2

\* a stored price_range is a list of exactly two values
WellFormedPrice(stored) == stored.js = "array" /\ Len(stored.v) = 2

\* the vector laid out as the data model says, for a Users row and a Searches row
LayoutOK(fv, usr, srch) ==
    /\ Len(fv) = 22
    /\ fv[1] = usr.temperature_bias
    /\ fv[2] = usr.tourist_bias
    /\ fv[3] = EmotionCode(usr.emotion)
    /\ \A k \in 1..8 :
          fv[3 + k] = IF Mentions(srch.cuisines, CuisineWords[k]) THEN 1 ELSE 0
    /\ \A k \in 1..6 :
          fv[11 + k] = IF Mentions(srch.tastes, TasteWords[k]) THEN 1 ELSE 0
    /\ fv[18] = (IF srch.diet = "Vegan" THEN 1 ELSE 0)
    /\ fv[19] = (IF srch.diet = "Vegetarian" THEN 1 ELSE 0)
    /\ fv[20] = (IF srch.diet = "None" THEN 1 ELSE 0)
    /\ WellFormedPrice(srch.price_range)
          => << fv[21], fv[22] >> = srch.price_range.v

\* the Users row and the Searches row the k-th training row was joined from
TrainingUser(k) == users[interactions[KthUsable(k)].user_id]

TrainingSearch(k) == searches[LastSearchRow(searches, interactions[KthUsable(k)].user_id)]

EncodeDone == pc[Caller] = "done" /\ out[Caller].op = "encode"

DirectDone == pc[Caller] = "done" /\ out[Caller].op = "direct"

ExtractDone == pc[Caller] = "done" /\ out[Caller].op = "extract"

ExtractOk == ExtractDone /\ out[Caller].res = "ok"

\* C11 (SpecVec): encoder layout.  The vector prepare_feature_vector returns,
\* and every row prepare_training_data returns, has 22 elements: the two
\* biases, the emotion code, the 8 cuisine flags and 6 taste flags of the words
\* the search names in any case, the diet flags Vegan/Vegetarian/None, and the
\* two prices of a well-formed price_range.
C11_EncoderLayout ==
    /\ EncodeDone
          => LayoutOK(out[Caller].fv, users[out[Caller].user_id], searches[out[Caller].row])
    /\ ExtractOk
          => \A k \in 1..Len(out[Caller].X) :
                LayoutOK(out[Caller].X[k], TrainingUser(k), TrainingSearch(k))

\* the last two elements are the stored pair when it is well-formed, else 1, 4
PriceOK(fv, stored) ==
    << fv[Len(fv) - 1], fv[Len(fv)] >> = IF WellFormedPrice(stored) THEN stored.v ELSE <<1, 4>>

\* C12 (SpecVec): price-range fallback.  Encoding a search never fails; the
\* last two elements are the two values of a price_range that is a list of two
\* and are 1 and 4 for a price_range that is absent or anything else, on the
\* prediction path, on a direct call, and in every training row.
C12_PriceFallback ==
    /\ EncodeDone => PriceOK(out[Caller].fv, searches[out[Caller].row].price_range)
    /\ DirectDone
          => << out[Caller].fv[21], out[Caller].fv[22] >> =
                IF /\ "price_range" \notin out[Caller].absent
                   /\ out[Caller].price_range.t = "list"
                   /\ Len(out[Caller].price_range.v) = 2
                THEN out[Caller].price_range.v
                ELSE <<1, 4>>
    /\ ExtractDone
          => /\ out[Caller].res = "ok"
             /\ \A k \in 1..Len(out[Caller].X) :
                   PriceOK(out[Caller].X[k], TrainingSearch(k).price_range)

\* as many flags are set in fv[from+1 .. from+Len(words)] as words are named
FlagCountOK(fv, from, words, stored) ==
    /\ \A k \in 1..Len(words) : fv[from + k] \in {0, 1}
    /\ Cardinality({k \in 1..Len(words) : fv[from + k] = 1})
          = Cardinality({k \in 1..Len(words) : Mentions(stored, words[k])})

ClosureOK(fv, srch) ==
    /\ Len(fv) = 22
    /\ FlagCountOK(fv, 3, CuisineWords, srch.cuisines)
    /\ FlagCountOK(fv, 11, TasteWords, srch.tastes)

\* C13 (SpecVec): vocabulary closure.  Whatever strings the cuisine and taste
\* lists hold, encoding raises nothing on their account, the vector is 22 wide,
\* and the number of cuisine (taste) flags set is the number of distinct
\* vocabulary cuisines (tastes) the list names in any case.
C13_VocabularyClosure ==
    /\ EncodeDone => ClosureOK(out[Caller].fv, searches[out[Caller].row])
    /\ (ExtractDone /\ \A i \in 1..Len(searches) : WellFormedPrice(searches[i].price_range))
          => /\ out[Caller].res = "ok"
             /\ \A k \in 1..Len(out[Caller].X) :
                   ClosureOK(out[Caller].X[k], TrainingSearch(k))

\* the three diet flags against the diet string
DietOK(fv, diet) ==
    LET flags == << fv[18], fv[19], fv[20] >>
    IN  /\ diet = "Vegan" => flags = <<1, 0, 0>>
        /\ diet = "Vegetarian" => flags = <<0, 1, 0>>
        /\ diet = "None" => flags = <<0, 0, 1>>
        /\ flags = <<0, 0, 0>> <=> diet \notin {"None", "Vegetarian", "Vegan"}
        /\ fv[18] + fv[19] + fv[20] <= 1

\* C14 (SpecVec): diet exclusivity.  On both encoders the diet flags are
\* exactly Vegan -> 1,0,0, Vegetarian -> 0,1,0, None -> 0,0,1; they are all 0
\* exactly for a diet that is none of the three strings; never two are set.
C14_DietExclusivity ==
    /\ EncodeDone => DietOK(out[Caller].fv, searches[out[Caller].row].diet)
    /\ (DirectDone /\ "diet" \notin out[Caller].absent)
          => DietOK(out[Caller].fv, searches[out[Caller].row].diet)
    /\ ExtractOk
          => \A k \in 1..Len(out[Caller].X) :
                DietOK(out[Caller].X[k], TrainingSearch(k).diet)

\* C14 witness: a training row of a search whose diet is an unrecognised
\* string, with no diet flag set
C14_Witness ==
    /\ ExtractOk
    /\ Len(out[Caller].X) = 1
    /\ searches[1].diet = "Keto"
    /\ << out[Caller].X[1][18], out[Caller].X[1][19], out[Caller].X[1][20] >> = <<0, 0, 0>>

\* ------------------------------------------------------ the Users table claims
UniqueUsernames(U) ==
    \A i, j \in 1..Len(U) : U[i].username = U[j].username => i = j

CarriesSurvey(row, q) ==
    /\ row.temperature_bias = agreement(q[1]) + agreement(q[2])
    /\ row.tourist_bias = calculate_tourist_bias(q[3])
    /\ row.other_preferences.v = << <<"q1", q[1]>>, <<"q2", q[2]>>, <<"q3", q[3]>> >>

\* C19 (SpecUsers): no lost updates on a user row.  save_user_setup changes the
\* emotion of its user's row and nothing else; save_user_preferences changes
\* the two biases and the preference blob of its user's row and nothing else;
\* so when one of the two calls ends on a row that carries the other's effect,
\* the row carries both afterwards, in either order.
C19_NoLostUpdates ==
    [][\A s \in Sessions :
          LET ended == pc[s] = "idle" /\ pc'[s] = "done"
              u == out'[s].user_id
          IN
          /\ (ended /\ out'[s].op = "save_user_setup")
                => /\ Len(users') = Len(users)
                   /\ \A i \in 1..Len(users) :
                         users'[i] = IF i = u
                                     THEN [users[i] EXCEPT !.emotion = out'[s].emotion]
                                     ELSE users[i]
                   /\ \A q \in SurveyInputs :
                         CarriesSurvey(users[u], q)
                         => CarriesSurvey(users'[u], q) /\ users'[u].emotion = out'[s].emotion
          /\ (ended /\ out'[s].op = "save_user_preferences")
                => /\ Len(users') = Len(users)
                   /\ \A i \in 1..Len(users) :
                         /\ users'[i].username = users[i].username
                         /\ users'[i].emotion = users[i].emotion
                         /\ i # u => users'[i] = users[i]
                   /\ CarriesSurvey(users'[u], out'[s].q)]_vars

\* C19 witness: both calls have run for user 1 while another user's row exists,
\* and the row differs from a new row in emotion and in biases
C19_Witness ==
    \E s, t \in Sessions :
       /\ pc[s] = "done" /\ out[s].op = "save_user_setup" /\ out[s].emotion = "sad"
       /\ pc[t] = "done" /\ out[t].op = "save_user_preferences"
       /\ out[s].user_id = out[t].user_id
       /\ Len(users) = 2
       /\ users[out[s].user_id].temperature_bias = 10

\* C20 (SpecUsers): bias range.  Every user's temperature_bias and
\* tourist_bias lie in [0, 1] (0 to 10 tenths) whatever answers the survey
\* passed, and every user's emotion is happy, neutral or sad.
C20_BiasRange ==
    \A i \in 1..Len(users) :
       /\ users[i].temperature_bias >= 0 /\ users[i].temperature_bias <= 10
       /\ users[i].tourist_bias >= 0 /\ users[i].tourist_bias <= 10
       /\ users[i].emotion \in {"happy", "neutral", "sad"}

\* C20 witness: a row saved from answers that are not on the scale, and another
\* at the top of both ranges
C20_Witness ==
    \E i, j \in 1..Len(users) :
       /\ users[i].other_preferences.v = << <<"q1", "Maybe">>, <<"q2", "Agree">>, <<"q3", "Never">> >>
       /\ users[i].temperature_bias = 7
       /\ users[i].tourist_bias = 5
       /\ users[j].temperature_bias = 10
       /\ users[j].tourist_bias = 10
       /\ users[j].emotion = "happy"

\* ------------------------------------------------------- the append-only claim
\* every row of the old table is still there, at its place, as it was
Extends(new, old) ==
    /\ Len(new) >= Len(old)
    /\ \A i \in 1..Len(old) : new[i] = old[i]

\* C18 (SpecSession): store records are append-only.  In every step of the
\* application no Users row goes away, the Searches and Interactions rows
\* there are stay as they are, a step that adds a search adds one row and
\* leaves the other two tables alone, likewise a step that adds an interaction,
\* and the steps of retrain_model, of predict_meal_recommendations and of
\* Surprise Me (reads, encoding, prediction) change none of the three tables.
C18_AppendOnly ==
    [][/\ Len(users') >= Len(users)
       /\ \A i \in 1..Len(users) : users'[i].username = users[i].username
       /\ Extends(searches', searches)
       /\ Extends(interactions', interactions)
       /\ searches' # searches
             => /\ Len(searches') = Len(searches) + 1
                /\ UNCHANGED << users, interactions >>
       /\ interactions' # interactions
             => /\ Len(interactions') = Len(interactions) + 1
                /\ UNCHANGED << users, searches >>
       /\ \A s \in Sessions :
             (\/ pc[s] \in {"retrain", "install", "fit", "save", "lookup",
                            "predict", "surprise"}
              \/ pc'[s] \in {"predict", "surprise"}
              \/ pc'[s] = "done" /\ out'[s].op \in {"predict", "surprise"})
             => UNCHANGED << users, searches, interactions >>]_vars

\* C18 witness: two users, the first with a changed row, two searches and an
\* interaction on file, and a Find Restaurants action with its retrain finished
C18_Witness ==
    /\ Len(users) = 2
    /\ users[1].emotion = "sad"
    /\ users[1].temperature_bias = 8
    /\ Len(searches) = 2
    /\ Len(interactions) = 1
    /\ pc[Caller] = "done"
    /\ out[Caller].op = "find"
    /\ out[Caller].cause = "ok"

\* ------------------------------------------------- the most recent search claims
\* C21 (SpecStore): same most recent search on both paths.  The search
\* get_recent_search answers with for a user is the record that
\* prepare_training_data joins to that user's interactions, the user's last
\* row in stored order.
C21_SameRecentSearch ==
    (EncodeDone /\ out[Caller].res = "ok")
    => searches[out[Caller].row] = searches[LastSearchRow(searches, out[Caller].user_id)]

\* C22 (SpecStore): within one extraction, the rows that come from one user's
\* interactions carry the same feature vector, whatever searches the user has
\* made.
C22_SameUserSameVector ==
    ExtractOk
    => \A k, l \in 1..Len(out[Caller].X) :
          interactions[KthUsable(k)].user_id = interactions[KthUsable(l)].user_id
          => out[Caller].X[k] = out[Caller].X[l]

\* C22 witness: a user with a like and a dislike and two different searches
\* gave two identical vectors with opposite labels
C22_Witness ==
    /\ ExtractOk
    /\ Len(out[Caller].X) = 2
    /\ interactions[1].user_id = interactions[2].user_id
    /\ out[Caller].y[1] # out[Caller].y[2]
    /\ Len(searches) = 2
    /\ searches[1].user_id = searches[2].user_id
    /\ searches[1].cuisines # searches[2].cuisines
    /\ out[Caller].X[1] = out[Caller].X[2]

====
